---- MODULE Spec2Model ----
(***************************************************************************)
(* repacku: the folder classification and plan-assembly engine.            *)
(*                                                                         *)
(* FolderAnalyzer._build_folder_tree walks a directory tree, one task per  *)
(* directory, and resolves every folder to a compression mode with         *)
(* FolderAnalyzer._determine_compress_mode.  The module models             *)
(*   - the extension classifier and the resolver as operators, and         *)
(*   - the recursive, concurrent tree build as a state machine.            *)
(***************************************************************************)
EXTENDS Integers, Sequences, FiniteSets, TLC

VARIABLES
    \* ---- the environment: the directory tree and the configuration ----
    parent,                  \* parent[d]: the directory holding d (0 for the scan root)
    blk,                     \* directories whose own name is a blacklist keyword
    target_file_types,       \* the target-type filter of the run (a list)
    single_image_compress,   \* special_rules.image_processing.single_image_compress
    config_readable,         \* whether compression_config.json can be read and parsed
    heavy,                   \* the directory holding 1 GB of files (0: the files are small)
    max_workers,             \* the size of one ThreadPoolExecutor, scaled to the trees of the model
    root_parts,              \* len(str(root).split(os.sep)): 1 for 'photos', 3 for '/data/photos'
    \* ---- the build tasks of _build_folder_tree ----
    pc,                      \* pc[d]: position of the task building d
    folder_info,             \* folder_info[d]: the FolderInfo of d (NoInfo: not created)
    children,                \* children[d]: the local list `children` of d's task
    has_child_with_archive,  \* has_child_with_archive[d]: the local flag of d's task
    regular_files,           \* regular_files[d]: the direct files d's task listed
    io_error,                \* the directories whose listing raised
    \* ---- generate_config_json ----
    config,                  \* the document written by this run (NoInfo: none yet)
    prev_config,             \* the document written by the run before (NoInfo: none)
    \* ---- FastScanner.scan_tree_parallel ----
    all_dirs,                \* the directories _collect_all_dirs returned ({}: not yet)
    results,                 \* results[d]: the ScanResult stored for d (NoInfo: none)
    listed,                  \* the directories whose entries the scanner has read
    \* ---- one direct call of the resolver ----
    call,                    \* the arguments of the function called
    ret                      \* its return value (NoInfo before the call returns)

vars == <<parent, blk, target_file_types, single_image_compress, config_readable, heavy, root_parts,
          max_workers,
          pc, folder_info, children, has_child_with_archive, regular_files, io_error,
          config, prev_config, all_dirs, results, listed, call, ret>>

\* The environment of a scan: it does not change while the scan runs.
env == <<parent, blk, target_file_types, single_image_compress, config_readable, heavy, root_parts,
         max_workers>>

\* The state of the scanner.
scan_state == <<all_dirs, results, listed>>

(***************************************************************************)
(* Bounds of the model.                                                    *)
(***************************************************************************)
\* direct files of the folder handed to one resolver call
MaxFiles == 3
\* direct files of one directory of the scanned tree
MaxTreeFiles == 3
\* among them, files that are not images
MaxOther == 1
\* pieces of one directory name handed to the blacklist tests
MaxNameLen == 2

\* Python's None: as a compress_mode, and as an object
None == "None"
NoInfo == [none |-> TRUE]

(***************************************************************************)
(* common_utils: modes, the extension table, the classifier.               *)
(***************************************************************************)
COMPRESS_MODE_ENTIRE == "entire"
COMPRESS_MODE_SELECTIVE == "selective"
COMPRESS_MODE_SKIP == "skip"

\* The table restricted to the suffixes the model's files carry.
DEFAULT_FILE_TYPES ==
    [text     |-> {".txt"},
     image    |-> {".jpg", ".png"},
     video    |-> {".mp4"},
     document |-> {".pdf"},
     archive  |-> {".zip"}]

\* A file is its name: a stem and a suffix (Path.suffix, "" when there is none).
JPG    == [stem |-> "a",      suffix |-> ".jpg"]
PNG    == [stem |-> "b",      suffix |-> ".PNG"]
MP4    == [stem |-> "v",      suffix |-> ".mp4"]
ZIP    == [stem |-> "z",      suffix |-> ".zip"]
TXT    == [stem |-> "t",      suffix |-> ".txt"]
PDF    == [stem |-> "d",      suffix |-> ".pdf"]
XYZ    == [stem |-> "x",      suffix |-> ".xyz"]
README == [stem |-> "readme", suffix |-> ""]
NOEXT  == [stem |-> "noext",  suffix |-> ""]

AllFiles == {JPG, PNG, MP4, ZIP, TXT, PDF, XYZ, README, NOEXT}

\* The files a directory of the scanned tree may hold.
TreeFiles == {JPG, MP4, ZIP, TXT}

\* More names for the classifiers: suffixes in upper and mixed case, and a
\* name that holds a keyword of the name heuristic and an unknown suffix.
JPGU      == [stem |-> "c",         suffix |-> ".JPG"]
MP4M      == [stem |-> "w",         suffix |-> ".Mp4"]
CHANGELOG == [stem |-> "changelog", suffix |-> ".xyz"]

ClassifyFiles == AllFiles \cup {JPGU, MP4M, CHANGELOG}

\* str.lower() on the suffixes above.
Lower(s) ==
    CASE s = ".PNG" -> ".png"
      [] s = ".JPG" -> ".jpg"
      [] s = ".Mp4" -> ".mp4"
      [] OTHER -> s

\* `keyword in filename` for the keywords of FileTypeManager.get_file_type.
NameHasKeyword(f) == f.stem \in {"readme", "license", "changelog"}

\* A file list is kept as a bag: files[f] is the number of files named like f.
EmptyFiles == [f \in AllFiles |-> 0]

\* The number of files of the list whose name is in S.
SumCounts(files, S) ==
    LET n(f) == IF f \in S THEN files[f] ELSE 0
    IN n(JPG) + n(PNG) + n(MP4) + n(ZIP) + n(TXT) + n(PDF) + n(XYZ) + n(README) + n(NOEXT)

\* len(files)
Len_(files) == SumCounts(files, AllFiles)

Present(files) == {f \in AllFiles : files[f] > 0}

\* All file lists of at most n files drawn from `kinds`.
RECURSIVE FileLists(_, _)
FileLists(kinds, n) ==
    IF n = 0 THEN {EmptyFiles}
    ELSE LET prev == FileLists(kinds, n - 1)
         IN prev \cup {[b EXCEPT ![f] = @ + 1] : b \in prev, f \in kinds}

\* Two files without extension ('Makefile', 'notes').
ExtensionlessLists == {[EmptyFiles EXCEPT ![NOEXT] = 2]}

\* The file lists a directory of the scanned tree may hold.
TreeFileLists ==
    {b \in FileLists(TreeFiles, MaxTreeFiles) : b[MP4] + b[ZIP] + b[TXT] <= MaxOther}

\* The order in which DEFAULT_FILE_TYPES.items() yields the categories.
TypeOrder == <<"text", "image", "video", "document", "archive">>

\* The positions of the categories whose set holds ext.
Hits(ext) == {i \in 1..Len(TypeOrder) : ext \in DEFAULT_FILE_TYPES[TypeOrder[i]]}

\* The loop returns at the first category that holds the suffix.
get_file_type(f) ==
    LET ext == Lower(f.suffix)
        hits == Hits(ext)
    IN IF hits # {} THEN TypeOrder[CHOOSE i \in hits : \A j \in hits : i <= j]
       ELSE IF NameHasKeyword(f) THEN "text"
       ELSE None

(***************************************************************************)
(* fast_scanner: the reverse index of the table and the lookup in it.      *)
(***************************************************************************)
\* _build_ext_cache stores the categories in order, a later one overwriting.
_EXT_TO_TYPE_CACHE ==
    LET exts == UNION {DEFAULT_FILE_TYPES[t] : t \in DOMAIN DEFAULT_FILE_TYPES}
    IN [e \in exts |-> TypeOrder[CHOOSE i \in Hits(e) : \A j \in Hits(e) : j <= i]]

\* Variant: the lookup takes the extension as it is written.
fast_get_file_type_as_written(ext) ==
    IF ext \in DOMAIN _EXT_TO_TYPE_CACHE THEN _EXT_TO_TYPE_CACHE[ext] ELSE None

fast_get_file_type(ext) ==
    IF Lower(ext) \in DOMAIN _EXT_TO_TYPE_CACHE THEN _EXT_TO_TYPE_CACHE[Lower(ext)] ELSE None

InList(x, list) == \E i \in 1..Len(list) : list[i] = x

is_file_in_types(f, target_types) ==
    IF target_types = <<>> THEN TRUE
    ELSE LET file_type == get_file_type(f)
         IN IF file_type = None
            THEN \E i \in 1..Len(target_types) :
                    /\ target_types[i] \in DOMAIN DEFAULT_FILE_TYPES
                    /\ Lower(f.suffix) \in DEFAULT_FILE_TYPES[target_types[i]]
            ELSE InList(file_type, target_types)

\* Variant: any image is enough, the other files are not looked at.
try_extended_media_match_any_image(files) ==
    \E f \in Present(files) : get_file_type(f) = "image"

try_extended_media_match(files) ==
    IF Len_(files) = 0 THEN FALSE
    ELSE /\ \A f \in Present(files) : get_file_type(f) \in {"image", "document", "text"}
         /\ \E f \in Present(files) : get_file_type(f) = "image"

\* The Counter of the non-empty lower-cased suffixes of the files of `sel`.
ExtCounter(files, sel) ==
    LET exts == {Lower(f.suffix) : f \in sel \cap Present(files)} \ {""}
    IN [e \in exts |-> SumCounts(files, {f \in sel : Lower(f.suffix) = e})]

\* The Counter of the categories of the files (file_types_count of the callers).
TypeCounter(files) ==
    LET types == {get_file_type(f) : f \in Present(files)} \ {None}
    IN [t \in types |-> SumCounts(files, {f \in AllFiles : get_file_type(f) = t})]

\* dict.get(key, 0)
Get0(counter, key) == IF key \in DOMAIN counter THEN counter[key] ELSE 0

EmptyCounter == [e \in {} |-> 0]

(***************************************************************************)
(* FolderAnalyzer._determine_compress_mode                                 *)
(***************************************************************************)
\* Variant: a floor of one file.
min_count_one == 2 - 1

min_count == 2

Result(mode, exts) == [mode |-> mode, exts |-> exts]

Matching(files, target_types) ==
    {f \in Present(files) : is_file_in_types(f, target_types)}

\* Variant: the suffix is looked up as written, not lower-cased.
single_image_rule_no_lower(files, has_subfolders, single_rule) ==
    /\ single_rule
    /\ Len_(files) = 1
    /\ ~has_subfolders
    /\ \A f \in Present(files) : f.suffix \in DEFAULT_FILE_TYPES.image

\* The special rule: one file, an image, and no subfolder.
single_image_rule(files, has_subfolders, single_rule) ==
    /\ single_rule
    /\ Len_(files) = 1
    /\ ~has_subfolders
    /\ \A f \in Present(files) : is_file_in_types(f, <<"image">>)

\* Variant: the extensions of all the files are recorded.
archive_rule_all_exts(files, target_types) ==
    LET matching_files == Matching(files, target_types)
    IN IF target_types = <<>>
          THEN Result(COMPRESS_MODE_SKIP, EmptyCounter)
       ELSE IF matching_files # {} /\ SumCounts(files, matching_files) >= min_count
          THEN Result(COMPRESS_MODE_SELECTIVE, ExtCounter(files, AllFiles))
       ELSE Result(COMPRESS_MODE_SKIP, EmptyCounter)

\* An archive in the folder or flagged from the children.
archive_rule(files, target_types) ==
    LET matching_files == Matching(files, target_types)
    IN IF target_types = <<>>
          THEN Result(COMPRESS_MODE_SKIP, EmptyCounter)
       ELSE IF matching_files # {} /\ SumCounts(files, matching_files) >= min_count
          THEN Result(COMPRESS_MODE_SELECTIVE, ExtCounter(files, matching_files))
       ELSE Result(COMPRESS_MODE_SKIP, EmptyCounter)

\* Variant: more than min_count files are asked for.
no_target_rule_strict(files) ==
    IF Len_(files) > min_count
    THEN Result(COMPRESS_MODE_ENTIRE, ExtCounter(files, AllFiles))
    ELSE Result(COMPRESS_MODE_SKIP, EmptyCounter)

\* No archive and no target types.
no_target_rule(files) ==
    IF Len_(files) >= min_count
    THEN Result(COMPRESS_MODE_ENTIRE, ExtCounter(files, AllFiles))
    ELSE Result(COMPRESS_MODE_SKIP, EmptyCounter)

\* Variant: the floor is not tested before the partial match.
target_rule_no_floor(files, target_types) ==
    LET matching_files == Matching(files, target_types)
        file_ext_count == ExtCounter(files, matching_files)
        matching_count == SumCounts(files, matching_files)
        total_files    == Len_(files)
    IN IF matching_count = total_files /\ matching_count >= min_count
          THEN Result(COMPRESS_MODE_ENTIRE, file_ext_count)
       ELSE IF /\ InList("image", target_types)
               /\ matching_count >= min_count
               /\ matching_count < total_files
               /\ try_extended_media_match(files)
          THEN Result(COMPRESS_MODE_ENTIRE, ExtCounter(files, AllFiles))
       ELSE IF matching_count > 0
          THEN Result(COMPRESS_MODE_SELECTIVE, file_ext_count)
       ELSE Result(COMPRESS_MODE_SKIP, file_ext_count)

\* Variant: the fallback keeps the count of the matched files.
target_rule_no_recount(files, target_types) ==
    LET matching_files == Matching(files, target_types)
        file_ext_count == ExtCounter(files, matching_files)
        matching_count == SumCounts(files, matching_files)
        total_files    == Len_(files)
    IN IF matching_count < min_count
          THEN Result(COMPRESS_MODE_SKIP, file_ext_count)
       ELSE IF matching_count = total_files /\ matching_count > 0
          THEN Result(COMPRESS_MODE_ENTIRE, file_ext_count)
       ELSE IF /\ InList("image", target_types)
               /\ matching_count < total_files
               /\ try_extended_media_match(files)
          THEN Result(COMPRESS_MODE_ENTIRE, file_ext_count)
       ELSE IF matching_count > 0
          THEN Result(COMPRESS_MODE_SELECTIVE, file_ext_count)
       ELSE Result(COMPRESS_MODE_SKIP, file_ext_count)

\* Variant: the extensions are counted over all the files, not the matched.
target_rule_all_exts(files, target_types) ==
    LET matching_files == Matching(files, target_types)
        file_ext_count == ExtCounter(files, AllFiles)
        matching_count == SumCounts(files, matching_files)
        total_files    == Len_(files)
    IN IF matching_count < min_count
          THEN Result(COMPRESS_MODE_SKIP, file_ext_count)
       ELSE IF matching_count = total_files /\ matching_count > 0
          THEN Result(COMPRESS_MODE_ENTIRE, file_ext_count)
       ELSE IF /\ InList("image", target_types)
               /\ matching_count < total_files
               /\ try_extended_media_match(files)
          THEN Result(COMPRESS_MODE_ENTIRE, ExtCounter(files, AllFiles))
       ELSE IF matching_count > 0
          THEN Result(COMPRESS_MODE_SELECTIVE, file_ext_count)
       ELSE Result(COMPRESS_MODE_SKIP, file_ext_count)

\* No archive, target types given.
target_rule(files, target_types) ==
    LET matching_files == Matching(files, target_types)
        file_ext_count == ExtCounter(files, matching_files)
        matching_count == SumCounts(files, matching_files)
        total_files    == Len_(files)
    IN IF matching_count < min_count
          THEN Result(COMPRESS_MODE_SKIP, file_ext_count)
       ELSE IF matching_count = total_files /\ matching_count > 0
          THEN Result(COMPRESS_MODE_ENTIRE, file_ext_count)
       ELSE IF /\ InList("image", target_types)
               /\ matching_count < total_files
               /\ try_extended_media_match(files)
          THEN Result(COMPRESS_MODE_ENTIRE, ExtCounter(files, AllFiles))
       ELSE IF matching_count > 0
          THEN Result(COMPRESS_MODE_SELECTIVE, file_ext_count)
       ELSE Result(COMPRESS_MODE_SKIP, file_ext_count)

_determine_compress_mode(files, file_types_count, target_types, child_archive, has_subfolders, blacklisted, single_rule) ==
    IF Len_(files) = 0 THEN Result(COMPRESS_MODE_SKIP, EmptyCounter)
    ELSE IF single_image_rule(files, has_subfolders, single_rule)
        THEN Result(COMPRESS_MODE_ENTIRE, ExtCounter(files, AllFiles))
    ELSE IF blacklisted THEN Result(COMPRESS_MODE_SKIP, EmptyCounter)
    ELSE IF Get0(file_types_count, "archive") > 0 \/ child_archive
        THEN archive_rule(files, target_types)
    ELSE IF target_types = <<>> THEN no_target_rule(files)
    ELSE target_rule(files, target_types)

(***************************************************************************)
(* The scanned tree.  Directory 1 is the scan root; a directory's name is  *)
(* its number, so names are ordered.                                       *)
(***************************************************************************)
Dirs == 1..3
Root == 1

SubDirs(d) == {c \in Dirs : parent[c] = d}

\* The trees over Dirs: every directory but the root lies in an earlier one.
Trees == {p \in [Dirs -> {0} \cup Dirs] :
            /\ p[Root] = 0
            /\ \A d \in Dirs \ {Root} : p[d] \in 1..(d - 1)}

\* The runs in which directories of extensionless files are met: no filter,
\* nothing blacklisted, small files, a relative root.
PlainRun ==
    /\ target_file_types = <<>>
    /\ blk = {}
    /\ heavy = 0
    /\ root_parts = 1
    /\ config_readable
    /\ ~single_image_compress

\* The target-type filters of the modelled runs; the last one names a type
\* that is not a category of the table (a misspelt --types argument).
TreeTargets == {<<>>, <<"image">>, <<"imgae">>}

\* Every type of the filter is a category of the table.
KnownTypes(target_types) ==
    \A i \in 1..Len(target_types) : target_types[i] \in DOMAIN DEFAULT_FILE_TYPES

(***************************************************************************)
(* Names and the two blacklist tests.  A name is a sequence of pieces:     *)
(* "kw" is a blacklist keyword as the list spells it ('tmp', 'cache'),     *)
(* "KW" the same keyword in upper case, "." a dot, and "x" any text that   *)
(* holds no part of a keyword.  A path is the sequence of the names of its *)
(* components.                                                             *)
(***************************************************************************)
Pieces == {"kw", "KW", ".", "x"}

Names ==
    {n \in UNION {[1..k -> Pieces] : k \in 1..MaxNameLen} : \E i \in 1..Len(n) : n[i] # "."}

\* A path of the filter calls: the name of a directory above, then the
\* directory's own name.
Paths == Names \X Names

\* str.lower() on a piece and on a name.
LowerPiece(p) == IF p = "KW" THEN "kw" ELSE p

LowerName(name) == [i \in 1..Len(name) |-> LowerPiece(name[i])]

\* common_utils.is_blacklisted_path: `keyword.lower() in str(path).lower()`,
\* the keyword anywhere in the path string, in any component of it.
is_blacklisted_path(path) ==
    \E i \in 1..Len(path) : \E j \in 1..Len(path[i]) : LowerPiece(path[i][j]) = "kw"

\* FastScanner._is_blacklisted_name: the lower-cased name is the keyword, or
\* starts with the keyword followed by a dot.
_is_blacklisted_name(name) ==
    LET name_lower == LowerName(name)
    IN \/ name_lower = <<"kw">>
       \/ /\ Len(name_lower) >= 2
          /\ name_lower[1] = "kw"
          /\ name_lower[2] = "."

\* In the scanned tree a directory of blk is named by a keyword, and the name
\* of any other holds none.
DirName(d) == IF d \in blk THEN <<"kw">> ELSE <<"x">>

\* The path of directory d from the scan root on.
RECURSIVE PathOf(_)
PathOf(d) == IF parent[d] = 0 THEN <<DirName(d)>> ELSE Append(PathOf(parent[d]), DirName(d))

\* The depth argument: analyze_folder_structure starts the root at 1.
RECURSIVE Depth(_)
Depth(d) == IF parent[d] = 0 THEN 1 ELSE Depth(parent[d]) + 1

\* Whether d is a or lies beneath a.
RECURSIVE IsWithin(_, _)
IsWithin(d, a) ==
    \/ d = a
    \/ IF parent[d] = 0 THEN FALSE ELSE IsWithin(parent[d], a)

\* get_folder_size in GB: the files below d, at any depth, summed.
get_folder_size(d) == IF heavy # 0 /\ IsWithin(heavy, d) THEN 1 ELSE 0

\* len(str(folder_path).split(os.sep)): the components of the root's path
\* and one for every directory entered below it.
PathComponents(d) == root_parts + Depth(d) - 1

\* calculate_folder_weight, in tenths: the number of path components plus
\* 0.1 * size.
calculate_folder_weight(d) == 10 * PathComponents(d) + get_folder_size(d)

FolderInfo(d) ==
    [path            |-> d,
     name            |-> d,
     depth           |-> Depth(d),
     weight          |-> calculate_folder_weight(d),
     total_files     |-> 0,
     compress_mode   |-> None,
     file_types      |-> EmptyCounter,
     file_extensions |-> EmptyCounter,
     children        |-> <<>>]

\* Variant: the weight ascending.
SortKeyLess_ascending(a, b) ==
    \/ folder_info[a].weight < folder_info[b].weight
    \/ /\ folder_info[a].weight = folder_info[b].weight
       /\ folder_info[a].name < folder_info[b].name

\* children.sort(key=lambda x: (-x.weight, x.name))
SortKeyLess(a, b) ==
    \/ folder_info[a].weight > folder_info[b].weight
    \/ /\ folder_info[a].weight = folder_info[b].weight
       /\ folder_info[a].name < folder_info[b].name

\* Variant: the list is left in the order the tasks completed.
SortChildren_unsorted(S) ==
    CHOOSE seq \in {children[d] : d \in Dirs} \cup {<<>>} : {seq[i] : i \in 1..Len(seq)} = S

RECURSIVE SortChildren(_)
SortChildren(S) ==
    IF S = {} THEN <<>>
    ELSE LET first == CHOOSE a \in S : \A b \in S \ {a} : SortKeyLess(a, b)
         IN <<first>> \o SortChildren(S \ {first})

Range(seq) == {seq[i] : i \in 1..Len(seq)}

\* The downgrade loop over folder_info.children.
Downgrade(mode, kids) ==
    IF /\ mode = COMPRESS_MODE_ENTIRE
       /\ \E c \in Range(kids) :
            folder_info[c].compress_mode \notin {None, "", COMPRESS_MODE_SKIP}
    THEN COMPRESS_MODE_SELECTIVE
    ELSE mode

\* file_ext_count of _build_folder_tree: every suffix, the empty one too.
RawExtCounter(files) ==
    LET exts == {Lower(f.suffix) : f \in Present(files)}
    IN [e \in exts |-> SumCounts(files, {f \in AllFiles : Lower(f.suffix) = e})]

(***************************************************************************)
(* FolderAnalyzer._build_folder_tree, one task per directory.              *)
(***************************************************************************)
Init ==
    /\ parent \in Trees
    /\ blk \in SUBSET Dirs
    /\ target_file_types \in TreeTargets
    /\ single_image_compress \in BOOLEAN
    /\ config_readable \in BOOLEAN
    /\ ~config_readable => ~single_image_compress
    /\ heavy \in {0} \cup {d \in Dirs \ {Root} : SubDirs(Root) = Dirs \ {Root} /\ blk = {}}
    /\ ~KnownTypes(target_file_types) =>
          /\ blk = {}
          /\ heavy = 0
          /\ config_readable
          /\ ~single_image_compress
          /\ SubDirs(Root) = {Root + 1}
    /\ root_parts \in {1} \cup {n \in {3} : /\ blk = {}
                                          /\ heavy = 0
                                          /\ target_file_types = <<>>
                                          /\ config_readable
                                          /\ ~single_image_compress}
    /\ max_workers \in {2} \cup {n \in {1} : PlainRun /\ SubDirs(Root) = {Root + 1}}
    /\ io_error = {}
    /\ config = NoInfo
    /\ prev_config = NoInfo
    /\ all_dirs = {}
    /\ results = [d \in Dirs |-> NoInfo]
    /\ listed = {}
    /\ pc = [d \in Dirs |-> "idle"]
    /\ folder_info = [d \in Dirs |-> NoInfo]
    /\ children = [d \in Dirs |-> <<>>]
    /\ has_child_with_archive = [d \in Dirs |-> FALSE]
    /\ regular_files = [d \in Dirs |-> EmptyFiles]
    /\ call = NoInfo
    /\ ret = NoInfo

\* A worker of the executor of d's parent is free to run the task of d (the
\* root's task runs in the calling thread).
FreeWorker(d) ==
    \/ d = Root
    \/ Cardinality({c \in SubDirs(parent[d]) : pc[c] = "running"}) < max_workers

\* The task of d starts: the blacklist test, the FolderInfo, the weight, and
\* one task submitted for every subfolder.
Start(d) ==
    /\ pc[d] = "idle"
    /\ IF d = Root THEN TRUE ELSE pc[parent[d]] = "running"
    /\ FreeWorker(d)
    /\ IF is_blacklisted_path(PathOf(d))
       THEN /\ pc' = [pc EXCEPT ![d] = "returned"]
            /\ UNCHANGED folder_info
       ELSE /\ pc' = [pc EXCEPT ![d] = "running"]
            /\ folder_info' = [folder_info EXCEPT ![d] = FolderInfo(d)]
    /\ UNCHANGED <<env, children, has_child_with_archive, regular_files, io_error>>
    /\ UNCHANGED <<config, prev_config, scan_state, call, ret>>

\* Listing the subfolders of d raises (an OSError that glob does not swallow):
\* the statement is outside the try, and the task of d ends with the
\* exception.
StartListError(d) ==
    /\ pc[d] = "idle"
    /\ IF d = Root THEN TRUE ELSE pc[parent[d]] = "running"
    /\ FreeWorker(d)
    /\ ~is_blacklisted_path(PathOf(d))
    /\ pc' = [pc EXCEPT ![d] = "raised"]
    /\ io_error' = io_error \cup {d}
    /\ UNCHANGED <<env, folder_info, children, has_child_with_archive, regular_files>>
    /\ UNCHANGED <<config, prev_config, scan_state, call, ret>>

\* future.result() re-raises the exception of a child in the task of p: the
\* executor is shut down, which waits for the other children, and the task
\* of p ends with the exception.
Abort(p) ==
    /\ pc[p] = "running"
    /\ \E c \in SubDirs(p) : pc[c] = "raised"
    /\ \A c \in SubDirs(p) : pc[c] \in {"returned", "collected", "raised"}
    /\ pc' = [pc EXCEPT ![p] = "raised"]
    /\ folder_info' = [folder_info EXCEPT ![p] = NoInfo]
    /\ UNCHANGED <<env, children, has_child_with_archive, regular_files, io_error>>
    /\ UNCHANGED <<config, prev_config, scan_state, call, ret>>

\* Variant: a skipped child does not raise the parent's flag.
Collect_archive_only(p, c) ==
    /\ pc[p] = "running"
    /\ parent[c] = p
    /\ pc[c] = "returned"
    /\ pc' = [pc EXCEPT ![c] = "collected"]
    /\ IF folder_info[c] # NoInfo
       THEN /\ children' = [children EXCEPT ![p] = Append(@, c)]
            /\ has_child_with_archive' =
                 [has_child_with_archive EXCEPT ![p] =
                    \/ @
                    \/ Get0(folder_info[c].file_types, "archive") > 0]
       ELSE UNCHANGED <<children, has_child_with_archive>>
    /\ UNCHANGED <<env, folder_info, regular_files, io_error, config, prev_config, scan_state, call, ret>>

\* as_completed hands the task of p the result of its finished child c.
Collect(p, c) ==
    /\ pc[p] = "running"
    /\ parent[c] = p
    /\ pc[c] = "returned"
    /\ pc' = [pc EXCEPT ![c] = "collected"]
    /\ IF folder_info[c] # NoInfo
       THEN /\ children' = [children EXCEPT ![p] = Append(@, c)]
            /\ has_child_with_archive' =
                 [has_child_with_archive EXCEPT ![p] =
                    \/ @
                    \/ Get0(folder_info[c].file_types, "archive") > 0
                    \/ folder_info[c].compress_mode = COMPRESS_MODE_SKIP]
       ELSE UNCHANGED <<children, has_child_with_archive>>
    /\ UNCHANGED <<env, folder_info, regular_files, io_error, config, prev_config, scan_state, call, ret>>

\* Variant: the loop is left after the first result.
AllCollected_first(d) ==
    /\ pc[d] = "running"
    /\ SubDirs(d) # {} => \E c \in SubDirs(d) : pc[c] = "collected"

\* The as_completed loop is over: every child's result has been taken.
AllCollected(d) ==
    /\ pc[d] = "running"
    /\ \A c \in SubDirs(d) : pc[c] = "collected"

\* What glob('*') can return for the files of d: any list on the first run of
\* the model; the tree does not change, so a later run finds what the first
\* found.
Listing(d) ==
    IF prev_config # NoInfo THEN {regular_files[d]}
    ELSE IF PlainRun THEN TreeFileLists \cup ExtensionlessLists
    ELSE TreeFileLists

\* Every child is in: the children are sorted, the direct files listed and
\* counted, the mode resolved and downgraded, and the task returns.  The
\* resolver reads the configuration once it has seen that there are files.
Finish(d) ==
    /\ AllCollected(d)
    /\ \E files \in Listing(d) :
         LET kids == SortChildren(Range(children[d]))
             file_types_count == TypeCounter(files)
             res == _determine_compress_mode(files, file_types_count, target_file_types, has_child_with_archive[d], SubDirs(d) # {}, is_blacklisted_path(PathOf(d)), single_image_compress)
         IN /\ config_readable \/ files = EmptyFiles
            /\ regular_files' = [regular_files EXCEPT ![d] = files]
            /\ folder_info' = [folder_info EXCEPT ![d] =
                 [@ EXCEPT !.children = kids,
                           !.total_files = Len_(files),
                           !.file_types = file_types_count,
                           !.file_extensions = res.exts,
                           !.compress_mode = Downgrade(res.mode, kids)]]
    /\ pc' = [pc EXCEPT ![d] = "returned"]
    /\ UNCHANGED <<env, children, has_child_with_archive, io_error, config, prev_config, scan_state, call, ret>>

\* Listing the direct files raises (an I/O error): the except clause logs it
\* and the node is returned with its sorted children and nothing else.
FinishListError(d) ==
    /\ AllCollected(d)
    /\ folder_info' = [folder_info EXCEPT ![d] =
         [@ EXCEPT !.children = SortChildren(Range(children[d]))]]
    /\ io_error' = io_error \cup {d}
    /\ pc' = [pc EXCEPT ![d] = "returned"]
    /\ UNCHANGED <<env, children, has_child_with_archive, regular_files, config, prev_config, scan_state, call, ret>>

\* get_single_image_compress_rule raises inside the resolver (the
\* configuration file cannot be read): the census is already stored, the
\* except clause logs, and the mode stays None.
FinishResolveError(d) ==
    /\ AllCollected(d)
    /\ ~config_readable
    /\ \E files \in Listing(d) \ {EmptyFiles} :
         /\ regular_files' = [regular_files EXCEPT ![d] = files]
         /\ folder_info' = [folder_info EXCEPT ![d] =
              [@ EXCEPT !.children = SortChildren(Range(children[d])),
                        !.total_files = Len_(files),
                        !.file_types = TypeCounter(files),
                        !.file_extensions = RawExtCounter(files)]]
    /\ pc' = [pc EXCEPT ![d] = "returned"]
    /\ UNCHANGED <<env, children, has_child_with_archive, io_error, config, prev_config, scan_state, call, ret>>

\* FolderInfo.to_dict: a census left empty is rebuilt from the extensions.
MappedTypes(exts) ==
    LET typed == {e \in DOMAIN exts : \E t \in DOMAIN DEFAULT_FILE_TYPES : e \in DEFAULT_FILE_TYPES[t]}
        TypeOf(e) == CHOOSE t \in DOMAIN DEFAULT_FILE_TYPES : e \in DEFAULT_FILE_TYPES[t]
        Sum3(t) == LET n(e) == IF e \in typed /\ TypeOf(e) = t THEN exts[e] ELSE 0
                   IN n(".jpg") + n(".png") + n(".mp4") + n(".zip") + n(".txt") + n(".pdf")
    IN [t \in {TypeOf(e) : e \in typed} |-> Sum3(t)]

\* FolderInfo.to_tree_dict: the node as it is serialized, children nested
\* (the key is left out when there are none), parent_path removed.
RECURSIVE to_tree_dict(_)
to_tree_dict(d) ==
    LET info == folder_info[d]
        result ==
            [path            |-> info.path,
             name            |-> info.name,
             depth           |-> info.depth,
             weight          |-> info.weight,
             total_files     |-> info.total_files,
             compress_mode   |-> info.compress_mode,
             file_types      |-> IF info.file_types = EmptyCounter
                                 THEN MappedTypes(info.file_extensions)
                                 ELSE info.file_types,
             file_extensions |-> info.file_extensions]
    IN IF info.children = <<>> THEN result
       ELSE result @@ [children |-> [i \in 1..Len(info.children) |-> to_tree_dict(info.children[i])]]

\* datetime.datetime.now().isoformat(): the first run reads T1, a later run
\* reads the same or a later time.
Timestamps == IF prev_config = NoInfo THEN {"T1"} ELSE {"T1", "T2"}

\* generate_config_json once analyze_folder_structure has returned a node: the
\* tree and the envelope are written.  (It raises when the root is None.)
Emit ==
    /\ pc[Root] = "returned"
    /\ folder_info[Root] # NoInfo
    /\ config = NoInfo
    /\ \E now \in Timestamps :
         config' = [folder_tree |-> to_tree_dict(Root),
                    config      |-> [timestamp         |-> now,
                                     target_file_types |-> target_file_types]]
    /\ UNCHANGED <<env, pc, folder_info, children, has_child_with_archive, regular_files>>
    /\ UNCHANGED <<io_error, prev_config, scan_state, call, ret>>

(***************************************************************************)
(* ZipCompressor.compress_from_json                                        *)
(***************************************************************************)
\* compress_from_json, selective: the extension list handed to
\* compress_files, the keys of file_extensions or, when there are none, the
\* built-in extensions of the census' categories (of the target types when
\* the census is empty).
BuiltinExts(t) ==
    IF t = "image" THEN {".jpg", ".jpeg", ".png", ".gif", ".bmp", ".webp"}
    ELSE IF t = "video" THEN {".mp4", ".avi", ".mov", ".wmv", ".mkv", ".flv"}
    ELSE IF t = "document" THEN {".pdf", ".doc", ".docx", ".txt", ".md"}
    ELSE {}

extensions_list(info) ==
    IF info.file_extensions # EmptyCounter THEN DOMAIN info.file_extensions
    ELSE LET target_types == IF info.file_types # EmptyCounter
                             THEN DOMAIN info.file_types
                             ELSE {target_file_types[i] : i \in 1..Len(target_file_types)}
         IN UNION {BuiltinExts(t) : t \in target_types}

\* compress_files: the direct files of folder n whose extension is in the
\* list (all of them when the list is empty).
compress_files(n, file_extensions) ==
    {f \in Present(regular_files[n]) :
        file_extensions = {} \/ Lower(f.suffix) \in file_extensions}

\* The files compress_from_json archives for node n when it is selective.
ArchivedFiles(n) == compress_files(n, extensions_list(folder_info[n]))

\* The sequences of a sequence, one after the other.
RECURSIVE Concat(_)
Concat(ss) == IF ss = <<>> THEN <<>> ELSE Head(ss) \o Concat(Tail(ss))

\* collect_folders: the node, then the nodes of each child's subtree.
RECURSIVE collect_folders(_)
collect_folders(folder_data) ==
    <<folder_data>> \o
        (IF "children" \in DOMAIN folder_data
         THEN Concat([i \in 1..Len(folder_data.children) |-> collect_folders(folder_data.children[i])])
         ELSE <<>>)

\* The filter of folders_to_compress.
IsToCompress(f) == f.compress_mode \in {COMPRESS_MODE_ENTIRE, COMPRESS_MODE_SELECTIVE}

\* The archiver call made for one node and its result: compress_entire_folder
\* takes the whole folder, compress_files the files of the extension list
\* and fails when there are none.
CompressionResult(f) ==
    IF f.compress_mode = COMPRESS_MODE_ENTIRE
    THEN [path |-> f.path, archiver |-> "compress_entire_folder",
          files |-> Present(regular_files[f.path]), success |-> TRUE]
    ELSE LET files == compress_files(f.path, extensions_list(f))
         IN [path |-> f.path, archiver |-> "compress_files",
             files |-> files, success |-> files # {}]

\* compress_from_json on the plan that was written: the nodes are collected,
\* those of mode entire or selective are kept, and the archiver is called
\* for each of them in turn.
compress_from_json ==
    /\ config # NoInfo
    /\ ret = NoInfo
    /\ LET folders_to_compress == SelectSeq(collect_folders(config.folder_tree), IsToCompress)
       IN ret' = [results |-> [i \in 1..Len(folders_to_compress) |-> CompressionResult(folders_to_compress[i])]]
    /\ UNCHANGED <<env, pc, folder_info, children, has_child_with_archive, regular_files>>
    /\ UNCHANGED <<io_error, config, prev_config, scan_state, call>>


\* The analysis is run once more over the same tree.
Rerun ==
    /\ config # NoInfo
    /\ prev_config = NoInfo
    /\ prev_config' = config
    /\ config' = NoInfo
    /\ pc' = [d \in Dirs |-> "idle"]
    /\ folder_info' = [d \in Dirs |-> NoInfo]
    /\ children' = [d \in Dirs |-> <<>>]
    /\ has_child_with_archive' = [d \in Dirs |-> FALSE]
    /\ UNCHANGED <<env, regular_files, io_error, scan_state, call, ret>>

Next ==
    \/ \E d \in Dirs : Start(d)
    \/ \E p, c \in Dirs : Collect(p, c)
    \/ \E d \in Dirs : Finish(d)
    \/ \E d \in Dirs : FinishListError(d)
    \/ \E d \in Dirs : FinishResolveError(d)
    \/ \E d \in Dirs : StartListError(d)
    \/ \E d \in Dirs : Abort(d)
    \/ Emit
    \/ compress_from_json

Spec == Init /\ [][Next]_vars

(***************************************************************************)
(* The build under fair scheduling: a thread that can take a step takes    *)
(* one in the end.  Scans under the filter <<image>> with small files.     *)
(***************************************************************************)
InitFair ==
    /\ Init
    /\ target_file_types = <<"image">>
    /\ ~single_image_compress
    /\ heavy = 0

SpecFair == InitFair /\ [][Next]_vars /\ WF_vars(Next)

(***************************************************************************)
(* Two runs over the same tree, one after the other.  The tree does not    *)
(* change and every directory of it can be listed.                         *)
(***************************************************************************)
InitRerun ==
    /\ Init
    /\ blk = {}
    /\ target_file_types = <<"image">>
    /\ heavy = 0

NextRerun ==
    \/ \E d \in Dirs : Start(d)
    \/ \E p, c \in Dirs : Collect(p, c)
    \/ \E d \in Dirs : Finish(d)
    \/ \E d \in Dirs : FinishResolveError(d)
    \/ Emit
    \/ Rerun

SpecRerun == InitRerun /\ [][NextRerun]_vars

(***************************************************************************)
(* One call of _determine_compress_mode on a folder, as its callers make   *)
(* it: the census is that of the files, the path is not blacklisted (both  *)
(* callers return before the call when it is), the configuration is        *)
(* readable.                                                               *)
(***************************************************************************)
ResolverTargets ==
    {<<>>, <<"image">>, <<"video">>, <<"text">>, <<"archive">>, <<"image", "document">>}

\* The flag comes from the children, so it is set only where subfolders are.
Calls ==
    {c \in [files          : FileLists(AllFiles, MaxFiles),
            target_types   : ResolverTargets,
            child_archive  : BOOLEAN,
            has_subfolders : BOOLEAN,
            single_rule    : BOOLEAN] : c.child_archive => c.has_subfolders}

InitResolver ==
    /\ parent = [d \in Dirs |-> IF d = Root THEN 0 ELSE Root]
    /\ blk = {}
    /\ target_file_types = <<>>
    /\ single_image_compress = FALSE
    /\ config_readable = TRUE
    /\ heavy = 0
    /\ root_parts = 1
    /\ max_workers = 2
    /\ io_error = {}
    /\ config = NoInfo
    /\ prev_config = NoInfo
    /\ all_dirs = {}
    /\ results = [d \in Dirs |-> NoInfo]
    /\ listed = {}
    /\ pc = [d \in Dirs |-> "idle"]
    /\ folder_info = [d \in Dirs |-> NoInfo]
    /\ children = [d \in Dirs |-> <<>>]
    /\ has_child_with_archive = [d \in Dirs |-> FALSE]
    /\ regular_files = [d \in Dirs |-> EmptyFiles]
    /\ call \in Calls
    /\ ret = NoInfo

Resolve ==
    /\ ret = NoInfo
    /\ ret' = _determine_compress_mode(call.files, TypeCounter(call.files), call.target_types, call.child_archive, call.has_subfolders, FALSE, call.single_rule)
    /\ UNCHANGED <<env, pc, folder_info, children, has_child_with_archive, regular_files, call>>
    /\ UNCHANGED <<io_error, config, prev_config, scan_state>>

NextResolver == Resolve

SpecResolver == InitResolver /\ [][NextResolver]_vars

(***************************************************************************)
(* One call of each blacklist test on a path, and of each classifier on a  *)
(* file name.                                                              *)
(***************************************************************************)
NameCalls == [path : Paths, file : ClassifyFiles]

InitNames ==
    /\ parent = [d \in Dirs |-> IF d = Root THEN 0 ELSE Root]
    /\ blk = {}
    /\ target_file_types = <<>>
    /\ single_image_compress = FALSE
    /\ config_readable = TRUE
    /\ heavy = 0
    /\ root_parts = 1
    /\ max_workers = 2
    /\ io_error = {}
    /\ config = NoInfo
    /\ prev_config = NoInfo
    /\ all_dirs = {}
    /\ results = [d \in Dirs |-> NoInfo]
    /\ listed = {}
    /\ pc = [d \in Dirs |-> "idle"]
    /\ folder_info = [d \in Dirs |-> NoInfo]
    /\ children = [d \in Dirs |-> <<>>]
    /\ has_child_with_archive = [d \in Dirs |-> FALSE]
    /\ regular_files = [d \in Dirs |-> EmptyFiles]
    /\ call \in NameCalls
    /\ ret = NoInfo

\* The Tree Builder tests the path, the scanner the directory's own name.
Filter ==
    /\ ret = NoInfo
    /\ ret' = [builder |-> is_blacklisted_path(call.path),
               scanner |-> _is_blacklisted_name(call.path[Len(call.path)])]
    /\ UNCHANGED <<env, pc, folder_info, children, has_child_with_archive, regular_files, call>>
    /\ UNCHANGED <<io_error, config, prev_config, scan_state>>

\* The two classifiers on one file name: the lookup on its suffix, the
\* manager on the name.
Classify ==
    /\ ret = NoInfo
    /\ ret' = [fast    |-> fast_get_file_type(call.file.suffix),
               manager |-> get_file_type(call.file)]
    /\ UNCHANGED <<env, pc, folder_info, children, has_child_with_archive, regular_files, call>>
    /\ UNCHANGED <<io_error, config, prev_config, scan_state>>

NextNames == Filter \/ Classify

SpecNames == InitNames /\ [][NextNames]_vars

(***************************************************************************)
(* FastScanner.scan_tree_parallel: the directories are collected by one    *)
(* walk, then every one of them is scanned by a task of its own.           *)
(***************************************************************************)
\* The census scan_single_folder keeps of the categories of the files.
FastTypeCounter(files) ==
    LET type(f) == fast_get_file_type(Lower(f.suffix))
        types == {type(f) : f \in Present(files)} \ {None}
    IN [t \in types |-> SumCounts(files, {f \in AllFiles : type(f) = t})]

\* The ScanResult scan_single_folder starts from (its depth and total_size
\* are not kept here).
EmptyScan(d) ==
    [path |-> d, name |-> d, files |-> EmptyFiles, subdirs |-> {},
     file_types |-> EmptyCounter, file_extensions |-> EmptyCounter, total_files |-> 0]

\* The directories the walk appends below d: the subdirectories whose name
\* passes the test, and what the walk appends below them.  A directory that
\* cannot be listed yields none.
RECURSIVE WalkBelow(_, _)
WalkBelow(d, bad) ==
    IF d \in bad THEN {}
    ELSE LET kept == {c \in SubDirs(d) : ~_is_blacklisted_name(DirName(c))}
         IN kept \cup UNION {WalkBelow(c, bad) : c \in kept}

\* The list starts with the root, whatever its name.
_collect_all_dirs(bad) == {Root} \cup WalkBelow(Root, bad)

\* The target-type filters of the modelled scans; the last one names a type
\* twice (--types image,image).
ScanTargets == {<<>>, <<"image">>, <<"image", "image">>}

InitScan ==
    /\ parent \in Trees
    /\ blk \in SUBSET Dirs
    /\ target_file_types \in ScanTargets
    /\ single_image_compress = FALSE
    /\ config_readable = TRUE
    /\ heavy = 0
    /\ root_parts = 1
    /\ max_workers = 2
    /\ io_error = {}
    /\ config = NoInfo
    /\ prev_config = NoInfo
    /\ all_dirs = {}
    /\ results = [d \in Dirs |-> NoInfo]
    /\ listed = {}
    /\ pc = [d \in Dirs |-> "idle"]
    /\ folder_info = [d \in Dirs |-> NoInfo]
    /\ children = [d \in Dirs |-> <<>>]
    /\ has_child_with_archive = [d \in Dirs |-> FALSE]
    /\ regular_files = [d \in Dirs |-> EmptyFiles]
    /\ call = NoInfo
    /\ ret = NoInfo

\* The first phase.  `bad` are the directories that cannot be listed.
CollectAllDirs ==
    /\ all_dirs = {}
    /\ \E bad \in SUBSET Dirs :
          /\ io_error' = bad
          /\ all_dirs' = _collect_all_dirs(bad)
          /\ listed' = listed \cup (_collect_all_dirs(bad) \ bad)
    /\ UNCHANGED <<env, pc, folder_info, children, has_child_with_archive, regular_files>>
    /\ UNCHANGED <<config, prev_config, results, call, ret>>

\* The second phase: the task of directory d.
ScanSingleFolder(d) ==
    /\ all_dirs # {}
    /\ d \in all_dirs
    /\ results[d] = NoInfo
    /\ IF _is_blacklisted_name(DirName(d)) \/ d \in io_error
       THEN /\ results' = [results EXCEPT ![d] = EmptyScan(d)]
            /\ UNCHANGED <<listed, regular_files>>
       ELSE \E files \in TreeFileLists :
              /\ regular_files' = [regular_files EXCEPT ![d] = files]
              /\ listed' = listed \cup {d}
              /\ results' = [results EXCEPT ![d] =
                    [path |-> d, name |-> d, files |-> files,
                     subdirs |-> {c \in SubDirs(d) : ~_is_blacklisted_name(DirName(c))},
                     file_types |-> FastTypeCounter(files),
                     file_extensions |-> ExtCounter(files, AllFiles),
                     total_files |-> Len_(files)]]
    /\ UNCHANGED <<env, pc, folder_info, children, has_child_with_archive>>
    /\ UNCHANGED <<io_error, config, prev_config, all_dirs, call, ret>>

\* scan_tree_parallel has returned: every task is done.
ScanReturned == all_dirs # {} /\ \A d \in all_dirs : results[d] # NoInfo

(***************************************************************************)
(* FastFolderAnalyzer: the tree built from the scan results.               *)
(***************************************************************************)
\* sum(scan.file_types.get(t, 0) for t in target_types)
RECURSIVE SumOverTypes(_, _)
SumOverTypes(file_types, target_types) ==
    IF target_types = <<>> THEN 0
    ELSE Get0(file_types, Head(target_types)) + SumOverTypes(file_types, Tail(target_types))

\* all_scans.get(subdir, ScanResult(path='', name='', depth=0))
ScanOf(all_scans, subdir) ==
    IF all_scans[subdir] # NoInfo THEN all_scans[subdir] ELSE EmptyScan(subdir)

_determine_compress_mode_fast(scan, target_types, all_scans) ==
    LET has_archive == Get0(scan.file_types, "archive") > 0
        has_child_archive ==
            \E subdir \in scan.subdirs :
                Get0(ScanOf(all_scans, subdir).file_types, "archive") > 0
        matching_count == SumOverTypes(scan.file_types, target_types)
    IN IF Len_(scan.files) = 0 THEN COMPRESS_MODE_SKIP
       ELSE IF has_archive \/ has_child_archive
       THEN IF target_types = <<>> THEN COMPRESS_MODE_SKIP
            ELSE IF matching_count >= 2 THEN COMPRESS_MODE_SELECTIVE
            ELSE COMPRESS_MODE_SKIP
       ELSE IF target_types = <<>>
       THEN IF scan.total_files >= 2 THEN COMPRESS_MODE_ENTIRE ELSE COMPRESS_MODE_SKIP
       ELSE IF matching_count < 2 THEN COMPRESS_MODE_SKIP
       ELSE IF matching_count = scan.total_files THEN COMPRESS_MODE_ENTIRE
       ELSE COMPRESS_MODE_SELECTIVE

\* children.sort(key=total_files, reverse=True): the nodes of S, most files
\* first; nodes with as many files keep the order of the listing, which is
\* taken to be that of the names.
RECURSIVE SortByFiles(_, _)
SortByFiles(S, all_scans) ==
    IF S = {} THEN <<>>
    ELSE LET first == CHOOSE c \in S : \A o \in S \ {c} :
                          \/ all_scans[c].total_files > all_scans[o].total_files
                          \/ /\ all_scans[c].total_files = all_scans[o].total_files
                             /\ c < o
         IN <<first>> \o SortByFiles(S \ {first}, all_scans)

\* build_node on the scan of directory d; an empty children stands for None.
RECURSIVE build_node(_, _, _)
build_node(d, all_scans, target_types) ==
    LET scan == all_scans[d]
        kept == {c \in scan.subdirs : all_scans[c] # NoInfo}
        order == SortByFiles(kept, all_scans)
    IN [path            |-> scan.path,
        name            |-> scan.name,
        total_files     |-> scan.total_files,
        file_types      |-> scan.file_types,
        file_extensions |-> scan.file_extensions,
        compress_mode   |-> _determine_compress_mode_fast(scan, target_types, all_scans),
        children        |-> [i \in 1..Len(order) |-> build_node(order[i], all_scans, target_types)]]

\* analyze_folder_tree_fast once the scan has returned: the tree of the root.
BuildTreeFromScans ==
    /\ ScanReturned
    /\ ret = NoInfo
    /\ ret' = [tree |-> build_node(Root, results, target_file_types)]
    /\ UNCHANGED <<env, pc, folder_info, children, has_child_with_archive, regular_files>>
    /\ UNCHANGED <<io_error, config, prev_config, scan_state, call>>

NextScan ==
    \/ CollectAllDirs
    \/ \E d \in Dirs : ScanSingleFolder(d)
    \/ BuildTreeFromScans

SpecScan == InitScan /\ [][NextScan]_vars

(***************************************************************************)
(* The plan: the nodes the build has returned.                             *)
(***************************************************************************)
Built(d) == pc[d] \in {"returned", "collected"} /\ folder_info[d] # NoInfo

ModeOf(d) == folder_info[d].compress_mode

Kids(n) == IF folder_info[n] = NoInfo THEN {} ELSE Range(folder_info[n].children)

RECURSIVE Descendants(_)
Descendants(n) == UNION {{c} \cup Descendants(c) : c \in Kids(n)}

OwnArchive(d) == Get0(folder_info[d].file_types, "archive") > 0

\* The category a file is counted under, and the files of a list whose
\* category is one of the target types (all of them when there is no filter).
CategoryIn(f, types) == \E i \in 1..Len(types) : get_file_type(f) = types[i]

MatchCount(files, types) ==
    IF types = <<>> THEN Len_(files)
    ELSE SumCounts(files, {f \in AllFiles : CategoryIn(f, types)})

\* ext -> number of the files of S with that (non-empty, lower-case) suffix
ExtsOf(files, S) ==
    LET exts == {Lower(f.suffix) : f \in {g \in S : files[g] > 0}} \ {""}
    IN [e \in exts |-> SumCounts(files, {f \in S : Lower(f.suffix) = e})]

(***************************************************************************)
(* Properties of the plan (specification Spec).                            *)
(***************************************************************************)

\* C1 (downgrade invariant): no node of the plan is entire while one of its
\* descendants, at any depth, has a resolved mode other than skip.
C1_DowngradeInvariant ==
    \A n \in Dirs :
        (Built(n) /\ \E m \in Descendants(n) :
                        ModeOf(m) \in {COMPRESS_MODE_ENTIRE, COMPRESS_MODE_SELECTIVE})
            => ModeOf(n) # COMPRESS_MODE_ENTIRE

\* C2 (archive safety): no node of the plan is entire while its own census
\* or the census of one of its descendants counts an archive.
C2_ArchiveSafety ==
    \A n \in Dirs :
        (Built(n) /\ (OwnArchive(n) \/ \E m \in Descendants(n) : OwnArchive(m)))
            => ModeOf(n) # COMPRESS_MODE_ENTIRE

\* C3 (minimum-match floor): every selective node of the plan, downgraded or
\* not, has at least 2 direct files that match the active filter.
C3_MinimumMatchFloor ==
    \A n \in Dirs :
        (Built(n) /\ ModeOf(n) = COMPRESS_MODE_SELECTIVE)
            => MatchCount(regular_files[n], target_file_types) >= 2

\* C3, witness: a node that was resolved to entire and downgraded (without a
\* filter and without an archive the resolver never returns selective).
C3_Witness ==
    \E n \in Dirs :
        /\ Built(n)
        /\ ModeOf(n) = COMPRESS_MODE_SELECTIVE
        /\ target_file_types = <<>>
        /\ Kids(n) # {}
        /\ MatchCount(regular_files[n], target_file_types) = 2

\* C4: a node analysed without error, with no archive in its census or below
\* it, at least 2 direct files that all match, and only skip children, is
\* entire.
C4_SkipChildrenKeepEntire ==
    \A n \in Dirs :
        ( /\ Built(n)
          /\ ModeOf(n) # None
          /\ ~OwnArchive(n)
          /\ \A m \in Descendants(n) : ~OwnArchive(m)
          /\ Len_(regular_files[n]) >= 2
          /\ MatchCount(regular_files[n], target_file_types) = Len_(regular_files[n])
          /\ \A c \in Kids(n) : ModeOf(c) = COMPRESS_MODE_SKIP )
            => ModeOf(n) = COMPRESS_MODE_ENTIRE

\* C5: the flag a node's task hands to the resolver is true exactly when one
\* of the node's children has a resolved mode other than skip.
C5_FlagIffNonSkipChild ==
    \A p \in Dirs :
        (Built(p) /\ \A c \in Kids(p) : ModeOf(c) # None)
            => (has_child_with_archive[p]
                    <=> \E c \in Kids(p) : ModeOf(c) # COMPRESS_MODE_SKIP)

\* The direct files of n whose lower-cased suffix is e.
CountExt(n, e) == SumCounts(regular_files[n], {f \in AllFiles : Lower(f.suffix) = e})

\* C11 (extension-set correctness, entire): for every entire node of the
\* plan, each extension a direct file carries is a key of file_extensions and
\* its count is the number of direct files with that extension.
C11_EntireCoversAll ==
    \A n \in Dirs :
        (Built(n) /\ ModeOf(n) = COMPRESS_MODE_ENTIRE)
            => \A f \in Present(regular_files[n]) :
                  Lower(f.suffix) # ""
                    => /\ Lower(f.suffix) \in DOMAIN folder_info[n].file_extensions
                       /\ folder_info[n].file_extensions[Lower(f.suffix)]
                            = CountExt(n, Lower(f.suffix))

\* C11, witness: an entire node reached through the extended-media fallback,
\* two images and a text under the filter <<image>>.
C11_Witness ==
    \E n \in Dirs :
        /\ Built(n)
        /\ ModeOf(n) = COMPRESS_MODE_ENTIRE
        /\ target_file_types = <<"image">>
        /\ regular_files[n][JPG] = 2 /\ regular_files[n][TXT] = 1
        /\ folder_info[n].file_extensions = (".jpg" :> 2 @@ ".txt" :> 1)

\* The fallback set applies to the files of n: image among the target
\* types, every file an image, a document or a text, one of them an image.
ExtendedMedia(n) ==
    /\ InList("image", target_file_types)
    /\ \A f \in Present(regular_files[n]) : get_file_type(f) \in {"image", "document", "text"}
    /\ \E f \in Present(regular_files[n]) : get_file_type(f) = "image"

\* The extensions of the direct files of n that match the active filter.
MatchedExts(n) ==
    {Lower(f.suffix) : f \in {g \in Present(regular_files[n]) :
                                target_file_types = <<>> \/ CategoryIn(g, target_file_types)}}

\* C12 (extension-set correctness, selective): the file_extensions of a
\* selective node, downgraded or not, holds only extensions of direct files
\* that match the filter, or of the direct files when the extended-media
\* fallback applied; under the filter <<image>> a video's extension is never
\* in it and no video is handed to the archiver.
C12_SelectiveOnlyMatched ==
    \A n \in Dirs :
        (Built(n) /\ ModeOf(n) = COMPRESS_MODE_SELECTIVE)
            => /\ DOMAIN folder_info[n].file_extensions
                    \subseteq (IF ExtendedMedia(n)
                                THEN {Lower(f.suffix) : f \in Present(regular_files[n])}
                                ELSE MatchedExts(n))
               /\ target_file_types = <<"image">>
                    => /\ ".mp4" \notin DOMAIN folder_info[n].file_extensions
                       /\ MP4 \notin ArchivedFiles(n)

\* C12, witness: two images and a video under the filter <<image>>.
C12_Witness ==
    \E n \in Dirs :
        /\ Built(n)
        /\ ModeOf(n) = COMPRESS_MODE_SELECTIVE
        /\ target_file_types = <<"image">>
        /\ regular_files[n][JPG] = 2 /\ regular_files[n][MP4] = 1
        /\ folder_info[n].file_extensions = (".jpg" :> 2)
        /\ ArchivedFiles(n) = {JPG}

\* C13 (sibling ordering): the children of every node of the tree are its
\* non-excluded subfolders, by weight descending, then by name ascending;
\* the keys of two siblings differ, so the order does not depend on the
\* order in which the tasks completed.
C13_SiblingOrder ==
    \A n \in Dirs :
        Built(n)
            => LET kids == folder_info[n].children
               IN /\ Range(kids) = {c \in SubDirs(n) : ~is_blacklisted_path(PathOf(c))}
                  /\ \A i, j \in 1..Len(kids) :
                        i < j =>
                          \/ folder_info[kids[i]].weight > folder_info[kids[j]].weight
                          \/ /\ folder_info[kids[i]].weight = folder_info[kids[j]].weight
                             /\ folder_info[kids[i]].name < folder_info[kids[j]].name

\* C13, witness: the lighter child completed first and has the smaller
\* name, and the heavier one comes first in the tree.
C13_Witness ==
    \E n \in Dirs :
        /\ Built(n)
        /\ children[n] = <<2, 3>>
        /\ folder_info[n].children = <<3, 2>>
        /\ folder_info[3].weight > folder_info[2].weight

\* The tasks started below p, at any depth.
TasksBelow(p) == {c \in Dirs \ {p} : IsWithin(c, p) /\ pc[c] # "idle"}

\* C15 (bottom-up order): a node whose mode is computed, or whose task has
\* returned, has a task for each of its subfolders, and every task below
\* it has returned and handed over its result.
C15_BottomUp ==
    \A p \in Dirs :
        (folder_info[p] # NoInfo /\ (ModeOf(p) # None \/ pc[p] \in {"returned", "collected"}))
            => /\ \A c \in SubDirs(p) : pc[c] # "idle"
               /\ \A c \in TasksBelow(p) : pc[c] = "collected"

\* C15, witness: the root of a chain of three has returned.
C15_Witness ==
    /\ parent[3] = 2
    /\ pc[Root] = "returned"
    /\ \A d \in Dirs : folder_info[d] # NoInfo
    /\ ModeOf(Root) # None

\* The modes written in a serialized tree.
RECURSIVE TreeModes(_)
TreeModes(tree) ==
    {tree.compress_mode}
        \cup (IF "children" \in DOMAIN tree
              THEN UNION {TreeModes(tree.children[i]) : i \in DOMAIN tree.children}
              ELSE {})

\* C16: a node's mode, once assigned, is never assigned again, and every
\* mode of the emitted plan is entire, selective or skip.
C16_SetOnce ==
    /\ [][\A d \in Dirs :
            (folder_info[d] # NoInfo /\ ModeOf(d) # None)
                => (folder_info'[d] # NoInfo /\ folder_info'[d].compress_mode = ModeOf(d))]_vars
    /\ [](config # NoInfo
            => TreeModes(config.folder_tree)
                 \subseteq {COMPRESS_MODE_ENTIRE, COMPRESS_MODE_SELECTIVE, COMPRESS_MODE_SKIP})

\* The nodes of the tree the root's task returned.
InPlan(d) == Built(Root) /\ (d = Root \/ d \in Descendants(Root))

\* An error was raised while d was listed or analysed.
Errored(d) ==
    \/ d \in io_error
    \/ Built(d) /\ ~config_readable /\ regular_files[d] # EmptyFiles

\* C17: an error on a directory never ends the scan with an exception; in
\* the emitted plan the directory is an empty folder of mode skip, and every
\* other node is resolved.
C17_ErrorsContained ==
    /\ pc[Root] # "raised"
    /\ config # NoInfo
        => \A d \in Dirs :
              /\ (Errored(d) /\ ~is_blacklisted_path(PathOf(d)))
                    => /\ InPlan(d)
                       /\ folder_info[d].total_files = 0
                       /\ ModeOf(d) = COMPRESS_MODE_SKIP
              /\ (InPlan(d) /\ ~Errored(d))
                    => ModeOf(d) \in {COMPRESS_MODE_ENTIRE, COMPRESS_MODE_SELECTIVE,
                                      COMPRESS_MODE_SKIP}

\* C22: a target-type filter that names a type outside the known categories
\* is rejected before any directory is traversed: no task starts, no node is
\* built and no plan is written.
C22_FilterValidated ==
    ~KnownTypes(target_file_types) =>
        /\ \A d \in Dirs : pc[d] = "idle" /\ folder_info[d] = NoInfo
        /\ config = NoInfo

\* C23: the root node has depth 0, the depth of every other node is that of
\* its parent plus 1, and the depth term of a node's weight (the weight less
\* 0.1 for each GB, in tenths) is that same depth.
C23_DepthFromRoot ==
    \A d \in Dirs :
        Built(d) =>
            /\ (d = Root => folder_info[d].depth = 0)
            /\ (d # Root /\ Built(parent[d]) =>
                    folder_info[d].depth = folder_info[parent[d]].depth + 1)
            /\ folder_info[d].weight - get_folder_size(d) = 10 * folder_info[d].depth

\* compress_from_json has returned.
Compressed == ret # NoInfo

\* The archiver calls made for node n.
CallsFor(n) == {i \in 1..Len(ret.results) : ret.results[i].path = n}

\* C24: compress_from_json calls the archiver exactly once for every node of
\* the plan whose mode is entire or selective and never for another node,
\* with one result for each call; the call for a selective node takes only
\* direct files whose extension is a key of the node's file_extensions.
C24_ArchiverCalls ==
    Compressed =>
        \A n \in Dirs :
            /\ Cardinality(CallsFor(n))
                  = IF InPlan(n) /\ ModeOf(n) \in {COMPRESS_MODE_ENTIRE, COMPRESS_MODE_SELECTIVE}
                    THEN 1 ELSE 0
            /\ \A i \in CallsFor(n) :
                  ModeOf(n) = COMPRESS_MODE_SELECTIVE =>
                      /\ ret.results[i].archiver = "compress_files"
                      /\ \A f \in ret.results[i].files :
                            /\ f \in Present(regular_files[n])
                            /\ Lower(f.suffix) \in DOMAIN folder_info[n].file_extensions

\* The worker threads of the build that exist: the thread that took the
\* task of c lives in the executor of c's parent until that executor is shut
\* down, when the parent has every result.
Workers == {c \in Dirs \ {Root} : pc[c] # "idle" /\ pc[parent[c]] = "running"}

\* C25: the workers that exist at the same time during a scan are never more
\* than the size of one worker pool.
C25_WorkersBounded == Cardinality(Workers) <= max_workers

\* C29: a node of the plan with at least one child node whose mode was
\* resolved (entire, selective or skip) is never entire, so that an entire
\* node has no child node, or only child nodes whose analysis failed.
ResolvedKids(n) == {c \in Kids(n) : ModeOf(c) \in {COMPRESS_MODE_ENTIRE, COMPRESS_MODE_SELECTIVE, COMPRESS_MODE_SKIP}}

C26_RunsToCompletion ==
    /\ <>(pc[Root] = "returned")
    /\ [](pc[Root] = "returned" =>
            \A d \in Dirs :
                ~is_blacklisted_path(PathOf(d)) =>
                    /\ Built(d)
                    /\ d # Root => InList(d, children[parent[d]]))

(***************************************************************************)
(* Two runs over the same tree (specification SpecRerun).                  *)
(***************************************************************************)
BothEmitted == config # NoInfo /\ prev_config # NoInfo

Returned == ret # NoInfo

\* The folder of the call: no archive of its own and none flagged.
CallNoArchive ==
    /\ Get0(TypeCounter(call.files), "archive") = 0
    /\ ~call.child_archive

\* The single-image exception applies to the call.
CallSingleImage ==
    /\ call.single_rule
    /\ Len_(call.files) = 1
    /\ ~call.has_subfolders
    /\ \A f \in Present(call.files) : get_file_type(f) = "image"

CallMatchCount == MatchCount(call.files, call.target_types)

CallMatched == {f \in AllFiles : CategoryIn(f, call.target_types)}

\* Every file is an image, a document or a text, and one is an image.
CallExtendedMedia ==
    /\ \A f \in Present(call.files) : get_file_type(f) \in {"image", "document", "text"}
    /\ \E f \in Present(call.files) : get_file_type(f) = "image"

\* C6 (extended-media fallback): no archive, image among the target types,
\* at least 2 but not all files matching: entire with every file's extension
\* when all files are image, document or text and one is an image; selective
\* otherwise.
C6_ExtendedMediaFallback ==
    ( /\ Returned
      /\ CallNoArchive
      /\ InList("image", call.target_types)
      /\ CallMatchCount >= 2
      /\ CallMatchCount < Len_(call.files) )
        => IF CallExtendedMedia
           THEN /\ ret.mode = COMPRESS_MODE_ENTIRE
                /\ ret.exts = ExtsOf(call.files, AllFiles)
           ELSE ret.mode = COMPRESS_MODE_SELECTIVE

\* C6, witness: a .jpg, a .PNG and a .txt under the filter <<image>>.
C6_Witness ==
    /\ Returned
    /\ call.target_types = <<"image">>
    /\ call.files[JPG] = 1 /\ call.files[PNG] = 1 /\ call.files[TXT] = 1
    /\ ret.mode = COMPRESS_MODE_ENTIRE
    /\ DOMAIN ret.exts = {".jpg", ".png", ".txt"}

\* C7 (single-image exception): the rule enabled, one direct file, an image,
\* and no subfolder: entire with that one extension counted once, whatever
\* the filter.
C7_SingleImageException ==
    (Returned /\ CallSingleImage)
        => /\ ret.mode = COMPRESS_MODE_ENTIRE
           /\ \A f \in Present(call.files) : ret.exts = (Lower(f.suffix) :> 1)

\* C7, witness: one .PNG under a filter that does not hold images.
C7_Witness ==
    /\ Returned
    /\ CallSingleImage
    /\ call.files[PNG] = 1
    /\ call.target_types = <<"video">>
    /\ ret = Result(COMPRESS_MODE_ENTIRE, (".png" :> 1))

\* C8 (archive-present rule): an archive in the census or flagged, and no
\* single-image exception: skip without target types; with them, selective
\* with exactly the matched files' extensions when at least 2 files match,
\* skip when fewer do.
C8_ArchivePresentRule ==
    (Returned /\ ~CallNoArchive /\ ~CallSingleImage)
        => IF call.target_types = <<>>
           THEN ret.mode = COMPRESS_MODE_SKIP
           ELSE IF CallMatchCount >= 2
           THEN /\ ret.mode = COMPRESS_MODE_SELECTIVE
                /\ ret.exts = ExtsOf(call.files, CallMatched)
           ELSE ret.mode = COMPRESS_MODE_SKIP

\* C8, witness: a .zip and two .jpg under the filter <<image>>.
C8_Witness ==
    /\ Returned
    /\ call.target_types = <<"image">>
    /\ call.files[ZIP] = 1 /\ call.files[JPG] = 2
    /\ ret = Result(COMPRESS_MODE_SELECTIVE, (".jpg" :> 2))

\* C9 (no archive, no target types): entire with every file's extension
\* from 2 direct files on, skip below, the single-image exception apart.
C9_NoTargetTypes ==
    (Returned /\ CallNoArchive /\ call.target_types = <<>> /\ ~CallSingleImage)
        => IF Len_(call.files) >= 2
           THEN /\ ret.mode = COMPRESS_MODE_ENTIRE
                /\ ret.exts = ExtsOf(call.files, AllFiles)
           ELSE ret.mode = COMPRESS_MODE_SKIP

\* C9, witness: exactly two files, of categories no rule names.
C9_Witness ==
    /\ Returned
    /\ call.target_types = <<>>
    /\ call.files[XYZ] = 1 /\ call.files[MP4] = 1 /\ Len_(call.files) = 2
    /\ ret = Result(COMPRESS_MODE_ENTIRE, (".xyz" :> 1 @@ ".mp4" :> 1))

\* The three cases C10 lists for a folder without archive under a filter.
CallTargetCases ==
    IF CallMatchCount < 2
    THEN ret.mode = COMPRESS_MODE_SKIP
    ELSE IF CallMatchCount = Len_(call.files)
    THEN ret.mode = COMPRESS_MODE_ENTIRE
    ELSE (InList("image", call.target_types) /\ CallExtendedMedia)
           \/ /\ ret.mode = COMPRESS_MODE_SELECTIVE
              /\ ret.exts = ExtsOf(call.files, CallMatched)

\* C10 as stated (no archive, target types given): skip below 2 matching
\* files, entire when all files match, selective with the matched files'
\* extensions in between unless the fallback fires.
C10_TargetTypesAsStated ==
    (Returned /\ CallNoArchive /\ call.target_types # <<>>) => CallTargetCases

\* C10 as amended: the same, the single-image exception apart.
C10_TargetTypes ==
    (Returned /\ CallNoArchive /\ call.target_types # <<>> /\ ~CallSingleImage)
        => CallTargetCases

\* C10, witness: two .jpg and a .mp4 under the filter <<image>>.
C10_Witness ==
    /\ Returned
    /\ call.target_types = <<"image">>
    /\ call.files[JPG] = 2 /\ call.files[MP4] = 1
    /\ ret = Result(COMPRESS_MODE_SELECTIVE, (".jpg" :> 2))

\* The files of the list whose extension the table gives category t.
TableCount(files, t) ==
    SumCounts(files, {f \in AllFiles : fast_get_file_type(f.suffix) = t})

\* The files of the list whose extension the table gives one of the types.
TableMatchCount(files, types) ==
    SumCounts(files, {f \in AllFiles : InList(fast_get_file_type(f.suffix), types)})

\* C21: the name-based fallback is not applied in the bulk census nor when
\* the files matching the target types are counted: the census counts a file
\* under the category of its extension only, and a folder without archive in
\* which fewer than 2 files have an extension of the target types is skipped.
C21_NoNameFallbackInBulk ==
    Returned =>
        /\ \A t \in DOMAIN DEFAULT_FILE_TYPES :
              Get0(TypeCounter(call.files), t) = TableCount(call.files, t)
        /\ ( /\ CallNoArchive
             /\ call.target_types # <<>>
             /\ ~CallSingleImage
             /\ TableMatchCount(call.files, call.target_types) < 2 )
              => ret.mode = COMPRESS_MODE_SKIP

\* The one case of C30: target types are given, no archive is present and
\* exactly one file of the folder matches the target types.
CallOneMatch ==
    /\ call.target_types # <<>>
    /\ CallNoArchive
    /\ SumCounts(call.files, Matching(call.files, call.target_types)) = 1

\* C30: for a folder the resolver returns as skip the returned extension map
\* is empty, except when target types are given, no archive is present and
\* exactly one file matches the target types: then the map holds the
\* extension of that file with count 1.
C30_SkipExtensionMap ==
    (Returned /\ ret.mode = COMPRESS_MODE_SKIP) =>
        IF CallOneMatch
        THEN \E f \in Matching(call.files, call.target_types) : ret.exts = (Lower(f.suffix) :> 1)
        ELSE ret.exts = EmptyCounter

(***************************************************************************)
(* Properties of the scanner (specification SpecScan).                     *)
(***************************************************************************)
\* d is blacklisted or lies beneath a blacklisted directory.
InExcludedBranch(d) == \E a \in blk : IsWithin(d, a)

\* d lies beneath a directory that could not be listed.
BeneathUnlisted(d) == \E a \in io_error : a # d /\ IsWithin(d, a)

\* The directories with a scan result.
Scanned == {d \in Dirs : results[d] # NoInfo}

\* C18: excluded branches are pruned.  No directory that is blacklisted or
\* lies beneath a blacklisted directory is listed, has a scan result or is a
\* node of the tree; the root apart, which always has its result, the
\* results scan_tree_parallel returns are those of the directories reached
\* from the root through names that are not blacklisted, and no others.
C18_ExcludedBranchesPruned ==
    /\ \A d \in Dirs \ {Root} :
          InExcludedBranch(d) =>
              /\ d \notin listed
              /\ results[d] = NoInfo
              /\ folder_info[d] = NoInfo
              /\ regular_files[d] = EmptyFiles
    /\ Root \in blk => folder_info[Root] = NoInfo
    /\ ScanReturned =>
          Scanned = {Root} \cup {d \in Dirs : ~InExcludedBranch(d) /\ ~BeneathUnlisted(d)}

(***************************************************************************)
(* Properties of the blacklist tests and of the classifiers (specification *)
(* SpecNames).                                                             *)
(***************************************************************************)
FilterReturned == "builder" \in DOMAIN ret

ClassifyReturned == "fast" \in DOMAIN ret

\* The directory's own final name.
OwnName == call.path[Len(call.path)]

\* The lower-cased name is a keyword or begins with one.
EqualsOrBeginsWithKeyword(name) == LowerPiece(name[1]) = "kw"

\* C19: a directory is excluded exactly when its own final name, compared
\* without regard to case, is a blacklist keyword or begins with one; a
\* keyword in the name of a directory above it or in the middle of its name
\* does not exclude it; the Tree Builder and the scanner decide alike.
C19_ExclusionRule ==
    FilterReturned =>
        /\ ret.builder = EqualsOrBeginsWithKeyword(OwnName)
        /\ ret.scanner = EqualsOrBeginsWithKeyword(OwnName)
        /\ ret.builder = ret.scanner

\* The categories whose extension set holds lower(e).
Holders(e) == {t \in DOMAIN DEFAULT_FILE_TYPES : Lower(e) \in DEFAULT_FILE_TYPES[t]}

\* C20: fast_get_file_type returns, for every extension string e, the one
\* category whose extension set holds lower(e), and none when no category
\* holds it; on a file whose name triggers no name heuristic it returns what
\* FileTypeManager.get_file_type returns.
C20_ClassifyByExtension ==
    ClassifyReturned =>
        LET e == call.file.suffix
        IN /\ Cardinality(Holders(e)) <= 1
           /\ IF Holders(e) = {} THEN ret.fast = None ELSE ret.fast \in Holders(e)
           /\ ~NameHasKeyword(call.file) => ret.fast = ret.manager

\* An upper-case suffix of a known category has been classified by both.
C20_Witness ==
    /\ ClassifyReturned
    /\ call.file = PNG
    /\ ret.fast = "image"
    /\ ret.manager = "image"

(***************************************************************************)
(* Properties of the fast analyzer's tree (specification SpecScan).        *)
(***************************************************************************)
FastBuilt == "tree" \in DOMAIN ret

\* The node and the nodes below it.
RECURSIVE FastNodes(_)
FastNodes(node) ==
    {node} \cup UNION {FastNodes(node.children[i]) : i \in 1..Len(node.children)}

\* C27: in the tree of analyze_folder_tree_fast a node whose own census, or
\* the census of a node below it at any depth, counts an archive is never
\* entire.
C27_FastArchiveSafety ==
    FastBuilt =>
        \A n \in FastNodes(ret.tree) :
            (\E m \in FastNodes(n) : Get0(m.file_types, "archive") > 0)
                => n.compress_mode # COMPRESS_MODE_ENTIRE

\* The direct files of the node whose category is one of the types, each
\* file counted once.
FastMatching(n, types) ==
    SumCounts(regular_files[n.path],
              {f \in AllFiles : InList(fast_get_file_type(Lower(f.suffix)), types)})

\* C28: for a node without archive, its own or a child's, under a filter:
\* skip when fewer than 2 direct files are of the target types, entire when
\* all of them are.
C28_FastTargetRule ==
    FastBuilt =>
        \A n \in FastNodes(ret.tree) :
            ( /\ target_file_types # <<>>
              /\ Get0(n.file_types, "archive") = 0
              /\ \A i \in 1..Len(n.children) : Get0(n.children[i].file_types, "archive") = 0 )
                => /\ FastMatching(n, target_file_types) < 2
                        => n.compress_mode = COMPRESS_MODE_SKIP
                   /\ ( /\ FastMatching(n, target_file_types) >= 2
                        /\ FastMatching(n, target_file_types) = n.total_files )
                        => n.compress_mode = COMPRESS_MODE_ENTIRE

====
